---- MODULE Spec2Model ----
(***************************************************************************)
(* Verification model of the panchangam engine of numerology_app:          *)
(*   panchangam/core.py       angular elements and daylight partitions     *)
(*   panchangam/astronomy.py  sunrise/sunset access with its fallback      *)
(*                                                                         *)
(* Numbers.  A longitude is a Python float.  It is modelled as a record    *)
(* [m, t]: m counts microdegrees (the resolution of the constant           *)
(* NAKSHATRA_DURATION = 13.333333) and t in -1..1 is the sign of a float   *)
(* too small to change any nonzero microdegree value it is added to (for   *)
(* instance 1e-300).  t is nonzero only when m = 0.  Float operations are  *)
(* exact on m and round on t the way binary64 does: x + tiny = x for       *)
(* x # 0.  A progress value is such a record counted in units of           *)
(* 1/duration, so progress is in [0,1) iff 0 <= m < duration and t >= 0.   *)
(*                                                                         *)
(* Instants are integers counting ticks from local midnight of the date;   *)
(* a tick is the resolution of datetime.timedelta, scaled so that one      *)
(* hour is TicksPerHour ticks.                                             *)
(***************************************************************************)
EXTENDS Integers, Sequences, FiniteSets, TLC

\* ------------------------------------------------------------------------
\* Constants of panchangam/core.py, in microdegrees
TITHI_DURATION == 12000000
NAKSHATRA_DURATION == 13333333
FULL_CIRCLE == 360000000

YOGAS ==
  << "Vishkambha", "Preeti", "Ayushman", "Saubhagya", "Shobhana", "Atiganda",
     "Sukarma", "Dhriti", "Shoola", "Ganda", "Vriddhi", "Dhruva",
     "Vyaghata", "Harshana", "Vajra", "Siddhi", "Vyatipata", "Variyan",
     "Parigha", "Shiva", "Siddha", "Sadhya", "Shubha", "Shukla",
     "Brahma", "Indra", "Vaidhriti" >>

NAKSHATRAS ==
  << "Ashwini", "Bharani", "Krittika", "Rohini", "Mrigashira", "Ardra",
     "Punarvasu", "Pushya", "Ashlesha", "Magha", "Purva Phalguni", "Uttara Phalguni",
     "Hasta", "Chitra", "Swati", "Vishakha", "Anuradha", "Jyeshtha",
     "Mula", "Purva Ashadha", "Uttara Ashadha", "Shravana", "Dhanishtha", "Shatabhisha",
     "Purva Bhadrapada", "Uttara Bhadrapada", "Revati" >>

KARANAS ==
  << "Bava", "Balava", "Kaulava", "Taitila", "Garija", "Vanija", "Vishti",
     "Shakuni", "Chatushpada", "Naga", "Kimstughna" >>

\* ------------------------------------------------------------------------
\* Bounds of the model
\* longitudes are sampled within EdgeWidth microdegrees of every unit boundary
EdgeWidth == 1
\* the provider's sunrise and sunset are sampled at SunSteps + 1 instants each
SunSteps == 4

\* ------------------------------------------------------------------------
\* Float arithmetic as the resolver uses it

Flt(m, t) == [m |-> m, t |-> IF m = 0 THEN t ELSE 0]

Sgn(n) == IF n > 0 THEN 1 ELSE IF n < 0 THEN -1 ELSE 0

\* a - b
FloatSub(a, b) == Flt(a.m - b.m, Sgn(a.t - b.t))

\* a + b
FloatAdd(a, b) == Flt(a.m + b.m, Sgn(a.t + b.t))

\* x % 360 on floats: r = fmod(x, 360) carries the sign of x; a nonzero r of
\* the wrong sign gets 360 added, and that addition rounds: -tiny + 360.0 is
\* 360.0 itself.
PyMod360(x) ==
  IF x.m # 0 THEN Flt(x.m % FULL_CIRCLE, 0)
  ELSE IF x.t < 0 THEN Flt(FULL_CIRCLE, 0)
  ELSE x

\* int(x / d): truncation toward zero
IntQuot(x, d) == IF x.m >= 0 THEN x.m \div d ELSE -((-x.m) \div d)

\* x / d - int(x / d), counted in units of 1/d
FracPart(x, d) == Flt(x.m - d * IntQuot(x, d), x.t)

\* ------------------------------------------------------------------------
\* Angular Element Resolver

\* compute_tithi counting completed tithis: a separation of 0 is tithi 30
compute_tithi_completed(sun_long, moon_long) ==
  LET tithi_diff == PyMod360(FloatSub(moon_long, sun_long))
      whole == IntQuot(tithi_diff, TITHI_DURATION)
      frac == FracPart(tithi_diff, TITHI_DURATION)
  IN  [number   |-> IF frac = Flt(0, 0)
                    THEN (IF whole = 0 THEN 30 ELSE whole)
                    ELSE whole + 1,
       progress |-> frac]

compute_tithi(sun_long, moon_long) ==
  LET tithi_diff == PyMod360(FloatSub(moon_long, sun_long))
  IN  [number   |-> IntQuot(tithi_diff, TITHI_DURATION) + 1,
       progress |-> FracPart(tithi_diff, TITHI_DURATION)]

compute_nakshatra(moon_long) ==
  [number   |-> IntQuot(moon_long, NAKSHATRA_DURATION) + 1,
   progress |-> FracPart(moon_long, NAKSHATRA_DURATION)]

compute_yoga(sun_long, moon_long) ==
  LET yoga_sum == PyMod360(FloatAdd(sun_long, moon_long))
  IN  [number   |-> IntQuot(yoga_sum, NAKSHATRA_DURATION) + 1,
       progress |-> FracPart(yoga_sum, NAKSHATRA_DURATION)]

\* compute_karana with the second tithi group reading the first group's names
compute_karana_unshifted(tithi_number, tithi_progress) ==
  LET karana_index == (2 * tithi_progress.m) \div TITHI_DURATION
      karana_name ==
        IF tithi_number \in {1, 6, 11, 16, 21, 26, 2, 7, 12, 17, 22, 27}
        THEN (IF karana_index = 0 THEN KARANAS[9] ELSE KARANAS[10])
        ELSE KARANAS[(karana_index % 7) + 1]
  IN  [name     |-> karana_name,
       progress |-> Flt(2 * tithi_progress.m - karana_index * TITHI_DURATION,
                        tithi_progress.t)]

\* tithi_progress counts units of 1/TITHI_DURATION, and so does the result
compute_karana(tithi_number, tithi_progress) ==
  LET karana_index == (2 * tithi_progress.m) \div TITHI_DURATION
      karana_name ==
        IF tithi_number \in {1, 6, 11, 16, 21, 26}
        THEN (IF karana_index = 0 THEN KARANAS[9] ELSE KARANAS[10])
        ELSE IF tithi_number \in {2, 7, 12, 17, 22, 27}
        THEN (IF karana_index = 0 THEN KARANAS[10] ELSE KARANAS[11])
        ELSE KARANAS[(karana_index % 7) + 1]
  IN  [name     |-> karana_name,
       progress |-> Flt(2 * tithi_progress.m - karana_index * TITHI_DURATION,
                        tithi_progress.t)]

\* ------------------------------------------------------------------------
\* Time: ticks from local midnight of the date
TicksPerHour == 60

\* timedelta(hours=h) for h given in tenths of an hour
Hours(tenths) == (tenths * TicksPerHour) \div 10

\* timedelta / int: the quotient rounded to the nearest tick, ties to even
DivNearest(a, b) ==
  LET q == a \div b
      r == a - b * q
  IN  IF 2 * r > b \/ (2 * r = b /\ q % 2 = 1) THEN q + 1 ELSE q

\* AstronomyEngine.sunrise_sunset on the pair that sunrise_sunset_local
\* returned; a missing event is << >>, an event at tick x is << x >>
get_sunrise_sunset(sunrise_iso, sunset_iso) ==
  IF sunrise_iso # << >> /\ sunset_iso # << >>
  THEN << sunrise_iso[1], sunset_iso[1] >>
  ELSE << Hours(60), Hours(180) >>

\* ------------------------------------------------------------------------
\* Daylight Partitioner

\* weekday tables, Monday first, (start, end) in tenths of an hour
rahu_periods ==
  << <<80, 95>>, <<30, 45>>, <<120, 135>>, <<15, 30>>,
     <<105, 120>>, <<90, 105>>, <<45, 60>> >>

yama_periods ==
  << <<30, 45>>, <<120, 135>>, <<15, 30>>, <<105, 120>>,
     <<90, 105>>, <<45, 60>>, <<80, 95>> >>

gulikai_periods ==
  << <<120, 135>>, <<15, 30>>, <<105, 120>>, <<90, 105>>,
     <<45, 60>>, <<80, 95>>, <<30, 45>> >>

get_time_from_period(sunrise, period) ==
  [start |-> sunrise + Hours(period[1]), end |-> sunrise + Hours(period[2])]

compute_rahu_yama_gulikai(wd, sunrise_iso, sunset_iso) ==
  LET sunrise == get_sunrise_sunset(sunrise_iso, sunset_iso)[1]
  IN  [rahu_kalam    |-> get_time_from_period(sunrise, rahu_periods[wd + 1]),
       yama_gandam   |-> get_time_from_period(sunrise, yama_periods[wd + 1]),
       gulikai_kalam |-> get_time_from_period(sunrise, gulikai_periods[wd + 1])]

planets == << "Sun", "Venus", "Mercury", "Moon", "Saturn", "Jupiter", "Mars" >>

\* compute_hora labelling hora i with planets[(i + 1) % 7]
compute_hora_shifted(sunrise_iso, sunset_iso) ==
  LET times == get_sunrise_sunset(sunrise_iso, sunset_iso)
      sunrise == times[1]
      sunset == times[2]
      hora_duration == DivNearest(sunset - sunrise, 12)
  IN  [n \in 1..12 |->
         [hora_number |-> n,
          planet      |-> planets[(n % 7) + 1],
          start       |-> sunrise + (n - 1) * hora_duration,
          end         |-> sunrise + n * hora_duration,
          duration    |-> hora_duration]]

compute_hora(sunrise_iso, sunset_iso) ==
  LET times == get_sunrise_sunset(sunrise_iso, sunset_iso)
      sunrise == times[1]
      sunset == times[2]
      hora_duration == DivNearest(sunset - sunrise, 12)
  IN  [n \in 1..12 |->
         [hora_number |-> n,
          planet      |-> planets[((n - 1) % 7) + 1],
          start       |-> sunrise + (n - 1) * hora_duration,
          end         |-> sunrise + n * hora_duration,
          duration    |-> hora_duration]]

gowri_names ==
  << "amrutha", "siddha", "marana", "rogam", "laabha", "dhanam", "sugam", "kantaka" >>

\* compute_gowri_nalla listing rogam as auspicious too
compute_gowri_nalla_overlap(sunrise_iso, sunset_iso) ==
  LET sunrise == get_sunrise_sunset(sunrise_iso, sunset_iso)[1]
  IN  [periods |->
         [amrutha |-> [start |-> sunrise + Hours(60),  end |-> sunrise + Hours(75)],
          siddha  |-> [start |-> sunrise + Hours(75),  end |-> sunrise + Hours(90)],
          marana  |-> [start |-> sunrise + Hours(90),  end |-> sunrise + Hours(105)],
          rogam   |-> [start |-> sunrise + Hours(105), end |-> sunrise + Hours(120)],
          laabha  |-> [start |-> sunrise + Hours(120), end |-> sunrise + Hours(135)],
          dhanam  |-> [start |-> sunrise + Hours(135), end |-> sunrise + Hours(150)],
          sugam   |-> [start |-> sunrise + Hours(150), end |-> sunrise + Hours(165)],
          kantaka |-> [start |-> sunrise + Hours(165), end |-> sunrise + Hours(180)]],
       auspicious   |-> << "amrutha", "siddha", "rogam", "laabha", "dhanam", "sugam" >>,
       inauspicious |-> << "marana", "rogam", "kantaka" >>]

compute_gowri_nalla(sunrise_iso, sunset_iso) ==
  LET sunrise == get_sunrise_sunset(sunrise_iso, sunset_iso)[1]
  IN  [periods |->
         [amrutha |-> [start |-> sunrise + Hours(60),  end |-> sunrise + Hours(75)],
          siddha  |-> [start |-> sunrise + Hours(75),  end |-> sunrise + Hours(90)],
          marana  |-> [start |-> sunrise + Hours(90),  end |-> sunrise + Hours(105)],
          rogam   |-> [start |-> sunrise + Hours(105), end |-> sunrise + Hours(120)],
          laabha  |-> [start |-> sunrise + Hours(120), end |-> sunrise + Hours(135)],
          dhanam  |-> [start |-> sunrise + Hours(135), end |-> sunrise + Hours(150)],
          sugam   |-> [start |-> sunrise + Hours(150), end |-> sunrise + Hours(165)],
          kantaka |-> [start |-> sunrise + Hours(165), end |-> sunrise + Hours(180)]],
       auspicious   |-> << "amrutha", "siddha", "laabha", "dhanam", "sugam" >>,
       inauspicious |-> << "marana", "rogam", "kantaka" >>]

\* ------------------------------------------------------------------------
\* State: the arguments of one resolver run and of one partitioner run, the
\* values computed so far, and the position in the run.
VARIABLES sun_long, moon_long, tithi, nakshatra, yoga, karana,
          weekday, eph_sunrise, eph_sunset,
          rahu_yama_gulikai, horas, gowri, pc,
          day_windows, windows, api_windows, panchangam, rule, matched,
          month, festival_days, queries

daylight == << weekday, eph_sunrise, eph_sunset, rahu_yama_gulikai, horas, gowri >>
\* results of day_segments, compute_windows and panchangam_today
segment_vars == << day_windows, windows, api_windows >>
\* the record assemble_panchangam returns
assembled == << panchangam >>
\* a festival rule under evaluation and the evaluator's answer
rule_vars == << rule, matched >>
\* the days of a month under scan and the festivals build_month found
scan_vars == << month, festival_days >>
vars == << sun_long, moon_long, tithi, nakshatra, yoga, karana,
           weekday, eph_sunrise, eph_sunset,
           rahu_yama_gulikai, horas, gowri, pc,
           day_windows, windows, api_windows, panchangam, rule, matched,
           month, festival_days, queries >>

\* the variables a run does not use keep their initial values
NoSegments == day_windows = << >> /\ windows = << >> /\ api_windows = << >>
NoRecord == panchangam = << >>
NoRule == rule = << >> /\ matched = FALSE
NoScan == month = << >> /\ festival_days = << >>
NoQueries == queries = << >>

\* a value not computed yet
Unset == [number |-> 0, progress |-> Flt(0, 0)]
UnsetKarana == [name |-> "", progress |-> Flt(0, 0)]

\* ------------------------------------------------------------------------
\* Sampled longitudes: every tithi, half-tithi and nakshatra/yoga boundary of
\* the circle and its neighbours, the smallest positive float, and the same
\* directions one turn further (the contract of the provider is [0, 360),
\* the functions accept any float).
Offsets == (0 - EdgeWidth) .. EdgeWidth

BoundaryMicro ==
  {k * TITHI_DURATION : k \in 0..30}
    \cup {k * TITHI_DURATION + TITHI_DURATION \div 2 : k \in 0..29}
    \cup {k * NAKSHATRA_DURATION : k \in 0..27}

MoonMicro == {u \in {b + o : b \in BoundaryMicro, o \in Offsets} :
                u >= 0 /\ u < FULL_CIRCLE}

SunMicro == {k * (FULL_CIRCLE \div 4) : k \in 0..3}
              \cup {TITHI_DURATION, FULL_CIRCLE - 1}

SunSamples == {Flt(u, 0) : u \in SunMicro} \cup {Flt(0, 1)}

MoonSamples == {Flt(u, 0) : u \in MoonMicro} \cup {Flt(0, 1)}
                 \cup {Flt(u + FULL_CIRCLE, 0) : u \in SunMicro}
                 \cup {Flt(u - FULL_CIRCLE, 0) : u \in SunMicro}

\* ------------------------------------------------------------------------
\* One run of the resolver, in the order of assemble_panchangam

InitAngular ==
  /\ sun_long \in SunSamples
  /\ moon_long \in MoonSamples
  /\ tithi = Unset
  /\ nakshatra = Unset
  /\ yoga = Unset
  /\ karana = UnsetKarana
  /\ weekday = 0
  /\ eph_sunrise = 0
  /\ eph_sunset = 0
  /\ rahu_yama_gulikai = << >>
  /\ horas = << >>
  /\ gowri = << >>
  /\ pc = "longitudes"
  /\ NoSegments /\ NoRecord /\ NoScan /\ NoQueries /\ NoRule

ComputeTithi ==
  /\ pc = "longitudes"
  /\ tithi' = compute_tithi(sun_long, moon_long)
  /\ pc' = "tithi"
  /\ UNCHANGED << sun_long, moon_long, nakshatra, yoga, karana, daylight,
                  segment_vars, assembled, rule_vars, scan_vars, queries >>

ComputeNakshatra ==
  /\ pc = "tithi"
  /\ nakshatra' = compute_nakshatra(moon_long)
  /\ pc' = "nakshatra"
  /\ UNCHANGED << sun_long, moon_long, tithi, yoga, karana, daylight,
                  segment_vars, assembled, rule_vars, scan_vars, queries >>

ComputeYoga ==
  /\ pc = "nakshatra"
  /\ yoga' = compute_yoga(sun_long, moon_long)
  /\ pc' = "yoga"
  /\ UNCHANGED << sun_long, moon_long, tithi, nakshatra, karana, daylight,
                  segment_vars, assembled, rule_vars, scan_vars, queries >>

ComputeKarana ==
  /\ pc = "yoga"
  /\ karana' = compute_karana(tithi.number, tithi.progress)
  /\ pc' = "karana"
  /\ UNCHANGED << sun_long, moon_long, tithi, nakshatra, yoga, daylight,
                  segment_vars, assembled, rule_vars, scan_vars, queries >>

NextAngular == ComputeTithi \/ ComputeNakshatra \/ ComputeYoga \/ ComputeKarana

SpecAngular == InitAngular /\ [][NextAngular]_vars

TithiDone == pc \in {"tithi", "nakshatra", "yoga", "karana"}
NakshatraDone == pc \in {"nakshatra", "yoga", "karana"}
YogaDone == pc \in {"yoga", "karana"}
KaranaDone == pc = "karana"

\* x is a longitude in [0, 360)
InDomain(x) == x.m >= 0 /\ x.m < FULL_CIRCLE /\ x.t >= 0

\* p, counted in units of 1/d, is in [0, 1)
InUnitInterval(p, d) == p.m >= 0 /\ p.m < d /\ p.t >= 0

\* ------------------------------------------------------------------------
\* Claims about the Angular Element Resolver (checked under SpecAngular)

\* C1: for sun and moon longitudes in [0, 360), compute_nakshatra and
\* compute_yoga return an index in 1..27 and a progress in [0, 1).
C1_NakshatraYogaInRange ==
  (InDomain(sun_long) /\ InDomain(moon_long)) =>
    /\ NakshatraDone =>
         /\ nakshatra.number \in 1..Len(NAKSHATRAS)
         /\ InUnitInterval(nakshatra.progress, NAKSHATRA_DURATION)
    /\ YogaDone =>
         /\ yoga.number \in 1..Len(YOGAS)
         /\ InUnitInterval(yoga.progress, NAKSHATRA_DURATION)

\* C2: for sun and moon longitudes in [0, 360), compute_tithi returns an
\* index in 1..30 and a progress in [0, 1).
C2_TithiInRange ==
  (TithiDone /\ InDomain(sun_long) /\ InDomain(moon_long)) =>
    /\ tithi.number \in 1..30
    /\ InUnitInterval(tithi.progress, TITHI_DURATION)

\* the moon is exactly deg degrees ahead of the sun, both in [0, 360)
Separation(deg) ==
  /\ InDomain(sun_long) /\ InDomain(moon_long)
  /\ FloatSub(moon_long, sun_long) = Flt(deg * (FULL_CIRCLE \div 360), 0)

\* C3: a separation of exactly 12 degrees is tithi 1, of 180 degrees tithi
\* 15, of 192 degrees tithi 16 (the tithi just completing).
C3_ExactMultipleCompletes ==
  TithiDone =>
    /\ Separation(12) => tithi.number = 1
    /\ Separation(180) => tithi.number = 15
    /\ Separation(192) => tithi.number = 16

\* moon - sun is congruent to 0 modulo 360
NewMoonInstant ==
  /\ (moon_long.m - sun_long.m) % FULL_CIRCLE = 0
  /\ moon_long.t = sun_long.t

\* C4: when moon - sun is congruent to 0 modulo 360, compute_tithi returns
\* index 1 and progress 0: the new-moon instant starts tithi 1, never 30.
C4_NewMoonStartsTithiOne ==
  (TithiDone /\ NewMoonInstant) =>
    tithi = [number |-> 1, progress |-> Flt(0, 0)]

\* the case of C4 with the moon a full turn away from a sun off the origin
C4_Witness ==
  /\ TithiDone /\ NewMoonInstant
  /\ sun_long.m > 0 /\ moon_long.m # sun_long.m
  /\ tithi.number = 1

\* C5: compute_yoga returns yoga 1 when the longitudes sum to 0, yoga 14
\* when they sum to 180, and yoga 27 when S = M = 180.
C5_YogaAtKnownSums ==
  YogaDone =>
    /\ (sun_long = Flt(0, 0) /\ moon_long = Flt(0, 0)) => yoga.number = 1
    /\ (sun_long = Flt(FULL_CIRCLE \div 4, 0) /\ moon_long = Flt(FULL_CIRCLE \div 4, 0))
         => yoga.number = 14
    /\ (sun_long = Flt(FULL_CIRCLE \div 2, 0) /\ moon_long = Flt(FULL_CIRCLE \div 2, 0))
         => yoga.number = 27

\* floor(progress * 2) for a tithi progress in [0, 1)
Slot(progress) == IF 2 * progress.m < TITHI_DURATION THEN 0 ELSE 1

FirstGroup == {1, 6, 11, 16, 21, 26}
SecondGroup == {2, 7, 12, 17, 22, 27}
MovingNames == {KARANAS[i] : i \in 1..7}
FixedNames == {KARANAS[i] : i \in 8..11}

\* C6: outside the two fixed groups the karana is the moving name at
\* position (2*(index-1) + slot) mod 7.
C6_MovingKaranaCycles ==
  (KaranaDone /\ tithi.number \in (1..30) \ (FirstGroup \cup SecondGroup)
     /\ InUnitInterval(tithi.progress, TITHI_DURATION)) =>
    karana.name = KARANAS[((2 * (tithi.number - 1) + Slot(tithi.progress)) % 7) + 1]

\* C7: a fixed-name karana occurs only on a tithi adjacent to new moon or
\* full moon (30, 1, 15, 16); every other tithi has a moving name.
C7_FixedOnlyAtMoonBoundaries ==
  (KaranaDone /\ tithi.number \in 1..30) =>
    /\ karana.name \in FixedNames => tithi.number \in {30, 1, 15, 16}
    /\ tithi.number \notin {30, 1, 15, 16} => karana.name \in MovingNames

SunriseEvents ==
  {<< >>} \cup {<< Hours(50) + 7 * i >> : i \in 0..SunSteps} \cup {<< Hours(20) >>}

SunsetEvents ==
  {<< >>} \cup {<< Hours(170) + 11 * i >> : i \in 0..SunSteps}
    \cup {<< Hours(10) >>, << Hours(230) >>}

InitDaylight ==
  /\ sun_long = Flt(0, 0)
  /\ moon_long = Flt(0, 0)
  /\ tithi = Unset
  /\ nakshatra = Unset
  /\ yoga = Unset
  /\ karana = UnsetKarana
  /\ weekday \in 0..6
  /\ eph_sunrise \in SunriseEvents
  /\ eph_sunset \in SunsetEvents
  /\ eph_sunrise # eph_sunset \/ eph_sunrise = << >>
  /\ rahu_yama_gulikai = << >>
  /\ horas = << >>
  /\ gowri = << >>
  /\ pc = "sun_times"
  /\ NoSegments /\ NoRecord /\ NoScan /\ NoQueries /\ NoRule

ComputeRahuYamaGulikai ==
  /\ pc = "sun_times"
  /\ rahu_yama_gulikai' = compute_rahu_yama_gulikai(weekday, eph_sunrise, eph_sunset)
  /\ pc' = "rahu_yama_gulikai"
  /\ UNCHANGED << sun_long, moon_long, tithi, nakshatra, yoga, karana,
                  weekday, eph_sunrise, eph_sunset, horas, gowri,
                  segment_vars, assembled, rule_vars, scan_vars, queries >>

ComputeHora ==
  /\ pc = "rahu_yama_gulikai"
  /\ horas' = compute_hora(eph_sunrise, eph_sunset)
  /\ pc' = "hora"
  /\ UNCHANGED << sun_long, moon_long, tithi, nakshatra, yoga, karana,
                  weekday, eph_sunrise, eph_sunset, rahu_yama_gulikai, gowri,
                  segment_vars, assembled, rule_vars, scan_vars, queries >>

ComputeGowriNalla ==
  /\ pc = "hora"
  /\ gowri' = compute_gowri_nalla(eph_sunrise, eph_sunset)
  /\ pc' = "gowri"
  /\ UNCHANGED << sun_long, moon_long, tithi, nakshatra, yoga, karana,
                  weekday, eph_sunrise, eph_sunset, rahu_yama_gulikai, horas,
                  segment_vars, assembled, rule_vars, scan_vars, queries >>

NextDaylight == ComputeRahuYamaGulikai \/ ComputeHora \/ ComputeGowriNalla

SpecDaylight == InitDaylight /\ [][NextDaylight]_vars

RahuDone == pc \in {"rahu_yama_gulikai", "hora", "gowri"}
HoraDone == pc \in {"hora", "gowri"}
GowriDone == pc = "gowri"

\* the sunrise R and sunset T the partitioner works with
R == get_sunrise_sunset(eph_sunrise, eph_sunset)[1]
T == get_sunrise_sunset(eph_sunrise, eph_sunset)[2]

\* the provider found both events of the date, and sunrise comes first
PositiveDaylight == eph_sunrise # << >> /\ eph_sunset # << >> /\ R < T

\* ------------------------------------------------------------------------
\* Claims about the Daylight Partitioner (checked under SpecDaylight)

\* iv is the k-th of the eight equal parts of [R, T]
IsEighth(iv, k) ==
  /\ 8 * (iv.start - R) = (k - 1) * (T - R)
  /\ 8 * (iv.end - R) = k * (T - R)

\* C9: with R < T, each of Rahu Kalam, Yama Gandam and Gulikai Kalam is
\* exactly one of the eight equal segments of [R, T].
C9_InauspiciousAreEighths ==
  (RahuDone /\ PositiveDaylight) =>
    /\ \E k \in 1..8 : IsEighth(rahu_yama_gulikai.rahu_kalam, k)
    /\ \E k \in 1..8 : IsEighth(rahu_yama_gulikai.yama_gandam, k)
    /\ \E k \in 1..8 : IsEighth(rahu_yama_gulikai.gulikai_kalam, k)

\* iv is a non-empty interval inside [R, T]
WithinDaylight(iv) == iv.start < iv.end /\ R <= iv.start /\ iv.end <= T

\* C10: with R < T, every interval of compute_rahu_yama_gulikai,
\* compute_hora and compute_gowri_nalla has start < end and lies in [R, T].
C10_IntervalsWithinDaylight ==
  PositiveDaylight =>
    /\ RahuDone =>
         /\ WithinDaylight(rahu_yama_gulikai.rahu_kalam)
         /\ WithinDaylight(rahu_yama_gulikai.yama_gandam)
         /\ WithinDaylight(rahu_yama_gulikai.gulikai_kalam)
    /\ HoraDone => \A n \in 1..12 : WithinDaylight(horas[n])
    /\ GowriDone =>
         \A n \in 1..Len(gowri_names) : WithinDaylight(gowri.periods[gowri_names[n]])

\* C11: with R < T, compute_hora returns 12 entries numbered 1..12, each
\* ending where the next starts, labelled Sun, Venus, Mercury, Moon, Saturn,
\* Jupiter, Mars and round again, whatever the weekday.
C11_HoraSequence ==
  (HoraDone /\ PositiveDaylight) =>
    /\ DOMAIN horas = 1..12
    /\ \A n \in 1..12 : horas[n].hora_number = n
    /\ \A n \in 1..11 : horas[n].end = horas[n + 1].start
    /\ [n \in 1..12 |-> horas[n].planet] =
         << "Sun", "Venus", "Mercury", "Moon", "Saturn", "Jupiter", "Mars",
            "Sun", "Venus", "Mercury", "Moon", "Saturn" >>

\* a Thursday whose daylight is no multiple of 12 ticks
C11_Witness ==
  /\ HoraDone /\ PositiveDaylight
  /\ weekday = 3
  /\ (T - R) % 12 # 0
  /\ horas[8].planet = "Sun"
  /\ horas[12].hora_number = 12

\* C13: with R < T, the eight Gowri periods partition [R, T]: the first
\* starts at R, each ends where the next starts, the last ends at T.
C13_GowriPartitionsDaylight ==
  (GowriDone /\ PositiveDaylight) =>
    /\ gowri.periods[gowri_names[1]].start = R
    /\ \A n \in 1..(Len(gowri_names) - 1) :
         gowri.periods[gowri_names[n]].end = gowri.periods[gowri_names[n + 1]].start
    /\ gowri.periods[gowri_names[Len(gowri_names)]].end = T

\* the names a sequence lists
Listed(seq) == {seq[i] : i \in 1..Len(seq)}

\* C14: the auspicious and inauspicious lists of compute_gowri_nalla are
\* disjoint, and each of the eight period names is in exactly one of them.
C14_GowriClassification ==
  GowriDone =>
    /\ Listed(gowri.auspicious) \cap Listed(gowri.inauspicious) = {}
    /\ Listed(gowri.auspicious) \cup Listed(gowri.inauspicious) =
         {"amrutha", "siddha", "marana", "rogam", "laabha", "dhanam", "sugam", "kantaka"}
    /\ DOMAIN gowri.periods = Listed(gowri.auspicious) \cup Listed(gowri.inauspicious)
    /\ Len(gowri.auspicious) + Len(gowri.inauspicious) = Len(gowri_names)

C14_Witness ==
  /\ GowriDone
  /\ "laabha" \in Listed(gowri.auspicious)
  /\ "kantaka" \in Listed(gowri.inauspicious)

\* the provider found both events of the date, and sunrise is not before sunset
NoDaylight == eph_sunrise # << >> /\ eph_sunset # << >> /\ R >= T

\* C15: when sunrise is not strictly before sunset, none of the three
\* partitioner functions returns (each fails), and no interval of zero or
\* negative length is produced.
C15_NoDaylightFails ==
  NoDaylight =>
    /\ ~RahuDone
    /\ ~HoraDone
    /\ ~GowriDone


\* ---------------------------------------------------------------------
\* Eight-segment selections: domain/vedic.py and panchangam_utils.py
\* ---------------------------------------------------------------------

\* strftime('%H:%M') of an instant: the hour and minute of its clock time
strftime(t) ==
  << (t % (24 * TicksPerHour)) \div TicksPerHour,
     ((t % TicksPerHour) * 60) \div TicksPerHour >>

\* _segment_window: start and end of the n-th of eight parts of sr..ss
_segment_window(sr, ss, segment_number_1based) ==
  LET part == DivNearest(ss - sr, 8)
      start == sr + part * (segment_number_1based - 1)
  IN << start, start + part >>

\* a Monday table that repeats the Yama segment
rahu_map_repeated == << 4, 7, 5, 6, 4, 3, 8 >>

\* day_segments' tables, Monday first
rahu_map == << 2, 7, 5, 6, 4, 3, 8 >>
yama_map == << 4, 3, 2, 1, 7, 6, 5 >>
gulika_map == << 6, 5, 4, 3, 2, 1, 7 >>

\* day_segments: the three windows as 'HH:MM-HH:MM'
day_segments(sr, ss, wd) ==
  LET f(w) == << strftime(w[1]), strftime(w[2]) >>
  IN << f(_segment_window(sr, ss, rahu_map[wd + 1])),
        f(_segment_window(sr, ss, yama_map[wd + 1])),
        f(_segment_window(sr, ss, gulika_map[wd + 1])) >>

\* compute_windows' tables, keyed by weekday()
_RAHU_SEG == (6 :> 8) @@ (0 :> 2) @@ (1 :> 7) @@ (2 :> 5) @@ (3 :> 6) @@ (4 :> 4) @@ (5 :> 3)
_YAMA_SEG == (6 :> 5) @@ (0 :> 4) @@ (1 :> 3) @@ (2 :> 2) @@ (3 :> 1) @@ (4 :> 7) @@ (5 :> 6)
_GULI_SEG == (6 :> 6) @@ (0 :> 5) @@ (1 :> 4) @@ (2 :> 3) @@ (3 :> 2) @@ (4 :> 1) @@ (5 :> 7)

\* _segments: parts[i + 1] is Python's parts[i]
_segments(sunrise, sunset) ==
  LET step == DivNearest(sunset - sunrise, 8)
  IN [i \in 1..8 |-> << sunrise + (i - 1) * step, sunrise + i * step >>]

\* the elements of seq at the indices keep accepts, in order
RECURSIVE Keep(_, _, _)
Keep(seq, keep, i) ==
  IF i > Len(seq) THEN << >>
  ELSE (IF i \in keep THEN << seq[i] >> ELSE << >>) \o Keep(seq, keep, i + 1)

\* compute_windows, from the sunrise and sunset astral gives for the date
compute_windows(wd, sunrise, sunset) ==
  LET parts == _segments(sunrise, sunset)
      rahu_idx == _RAHU_SEG[wd] - 1
      yama_idx == _YAMA_SEG[wd] - 1
      guli_idx == _GULI_SEG[wd] - 1
      bad == {rahu_idx, yama_idx, guli_idx}
  IN [sunrise |-> sunrise, sunset |-> sunset, parts |-> parts,
      rahu |-> parts[rahu_idx + 1],
      yamaganda |-> parts[yama_idx + 1],
      gulikai |-> parts[guli_idx + 1],
      best_windows |-> Keep(parts, {i \in 1..8 : (i - 1) \notin bad}, 1)]

\* a date with a sunrise and a sunset, on any weekday
InitSegments ==
  /\ weekday \in 0..6
  /\ eph_sunrise \in SunriseEvents \ {<< >>}
  /\ eph_sunset \in SunsetEvents \ {<< >>}
  /\ sun_long = Unset /\ moon_long = Unset
  /\ tithi = Unset /\ nakshatra = Unset /\ yoga = Unset /\ karana = UnsetKarana
  /\ rahu_yama_gulikai = << >> /\ horas = << >> /\ gowri = << >>
  /\ pc = "segments"
  /\ NoSegments /\ NoRecord /\ NoScan /\ NoQueries /\ NoRule

DaySegments ==
  /\ pc = "segments"
  /\ day_windows' = day_segments(eph_sunrise[1], eph_sunset[1], weekday)
  /\ pc' = "day_segments"
  /\ UNCHANGED << sun_long, moon_long, tithi, nakshatra, yoga, karana, daylight,
                  windows, api_windows, assembled, rule_vars, scan_vars, queries >>

ComputeWindows ==
  /\ pc = "day_segments"
  /\ windows' = compute_windows(weekday, eph_sunrise[1], eph_sunset[1])
  /\ pc' = "compute_windows"
  /\ UNCHANGED << sun_long, moon_long, tithi, nakshatra, yoga, karana, daylight,
                  day_windows, api_windows, assembled, rule_vars, scan_vars, queries >>

\* api_panchangam.py: (s, e) means from the start of slot s to the start of slot e
RAHU_FRAC ==
  (0 :> << 1, 2 >>) @@ (1 :> << 6, 7 >>) @@ (2 :> << 4, 5 >>) @@ (3 :> << 5, 6 >>)
    @@ (4 :> << 3, 4 >>) @@ (5 :> << 2, 3 >>) @@ (6 :> << 7, 8 >>)
YAMA_FRAC ==
  (0 :> << 5, 6 >>) @@ (1 :> << 4, 5 >>) @@ (2 :> << 3, 4 >>) @@ (3 :> << 2, 3 >>)
    @@ (4 :> << 1, 2 >>) @@ (5 :> << 7, 8 >>) @@ (6 :> << 6, 7 >>)
GULIKA_FRAC ==
  (0 :> << 3, 4 >>) @@ (1 :> << 2, 3 >>) @@ (2 :> << 1, 2 >>) @@ (3 :> << 7, 8 >>)
    @@ (4 :> << 6, 7 >>) @@ (5 :> << 5, 6 >>) @@ (6 :> << 4, 5 >>)

\* window_for: slot_len is the exact eighth of the day length, and each
\* offset is rounded when it becomes a timedelta
window_for(sunrise, sunset, slot_pair) ==
  LET day_len == sunset - sunrise
      s_idx == slot_pair[1]
      e_idx == slot_pair[2]
  IN << sunrise + DivNearest((s_idx - 1) * day_len, 8),
        sunrise + DivNearest((e_idx - 1) * day_len, 8) >>

\* panchangam_today: the three windows as start and end 'HH:MM'
panchangam_today(wd, sr, ss) ==
  LET fmt(w) == [start |-> strftime(w[1]), end |-> strftime(w[2])]
  IN [sunrise |-> strftime(sr), sunset |-> strftime(ss),
      rahu |-> fmt(window_for(sr, ss, RAHU_FRAC[wd])),
      yama |-> fmt(window_for(sr, ss, YAMA_FRAC[wd])),
      gulika |-> fmt(window_for(sr, ss, GULIKA_FRAC[wd]))]

PanchangamToday ==
  /\ pc = "compute_windows"
  /\ api_windows' = panchangam_today(weekday, eph_sunrise[1], eph_sunset[1])
  /\ pc' = "panchangam_today"
  /\ UNCHANGED << sun_long, moon_long, tithi, nakshatra, yoga, karana, daylight,
                  day_windows, windows, assembled, rule_vars, scan_vars, queries >>

NextSegments == DaySegments \/ ComputeWindows \/ PanchangamToday
SpecSegments == InitSegments /\ [][NextSegments]_vars

\* three selections no two of which are the same
PairwiseDistinct(a, b, c) == a # b /\ a # c /\ b # c

\* C12: on every weekday (Monday = 0 .. Sunday = 6, the weekday of the date)
\* the Rahu, Yama and Gulikai selections are pairwise distinct in the offset
\* tables of compute_rahu_yama_gulikai, in the segment maps of day_segments
\* and in the segment maps of compute_windows.
C12_SelectionsDistinct ==
  LET wd == weekday
  IN /\ wd \in 0..6
     /\ PairwiseDistinct(rahu_periods[wd + 1], yama_periods[wd + 1], gulikai_periods[wd + 1])
     /\ PairwiseDistinct(rahu_map[wd + 1], yama_map[wd + 1], gulika_map[wd + 1])
     /\ PairwiseDistinct(_RAHU_SEG[wd], _YAMA_SEG[wd], _GULI_SEG[wd])

C12_Witness ==
  /\ pc = "compute_windows"
  /\ weekday = 6
  /\ R < T
  /\ windows.rahu = windows.parts[8]
  /\ PairwiseDistinct(windows.rahu, windows.yamaganda, windows.gulikai)
  /\ Len(windows.best_windows) = 5
  /\ PairwiseDistinct(day_windows[1], day_windows[2], day_windows[3])


\* ---------------------------------------------------------------------
\* Strings: a str is the sequence of its characters
\* ---------------------------------------------------------------------

\* the characters of a word of the vocabulary, in order
Chars(w) ==
  CASE w = "tithi" -> << "t", "i", "t", "h", "i" >>
    [] w = "nakshatra" -> << "n", "a", "k", "s", "h", "a", "t", "r", "a" >>
    [] w = "yoga" -> << "y", "o", "g", "a" >>
    [] w = "karana" -> << "k", "a", "r", "a", "n", "a" >>
    [] w = "weekday" -> << "w", "e", "e", "k", "d", "a", "y" >>
    [] w = "shukla" -> << "s", "h", "u", "k", "l", "a" >>
    [] w = "krishna" -> << "k", "r", "i", "s", "h", "n", "a" >>
    [] w = "Shukla" -> << "S", "h", "u", "k", "l", "a" >>
    [] w = "Krishna" -> << "K", "r", "i", "s", "h", "n", "a" >>
    [] w = "pradosha_kala" -> << "p", "r", "a", "d", "o", "s", "h", "a", "_", "k", "a", "l", "a" >>
    [] w = "brahma_muhurta" -> << "b", "r", "a", "h", "m", "a", "_", "m", "u", "h", "u", "r", "t", "a" >>
    [] w = "amavasya" -> << "a", "m", "a", "v", "a", "s", "y", "a" >>
    [] w = "purnima" -> << "p", "u", "r", "n", "i", "m", "a" >>
    [] w = "ekadashi" -> << "e", "k", "a", "d", "a", "s", "h", "i" >>
    [] w = "monday" -> << "m", "o", "n", "d", "a", "y" >>
    [] w = "tuesday" -> << "t", "u", "e", "s", "d", "a", "y" >>
    [] w = "wednesday" -> << "w", "e", "d", "n", "e", "s", "d", "a", "y" >>
    [] w = "thursday" -> << "t", "h", "u", "r", "s", "d", "a", "y" >>
    [] w = "friday" -> << "f", "r", "i", "d", "a", "y" >>
    [] w = "saturday" -> << "s", "a", "t", "u", "r", "d", "a", "y" >>
    [] w = "sunday" -> << "s", "u", "n", "d", "a", "y" >>
    [] w = "Bava" -> << "B", "a", "v", "a" >>
    [] w = "Balava" -> << "B", "a", "l", "a", "v", "a" >>
    [] w = "Kaulava" -> << "K", "a", "u", "l", "a", "v", "a" >>
    [] w = "Taitila" -> << "T", "a", "i", "t", "i", "l", "a" >>
    [] w = "Garija" -> << "G", "a", "r", "i", "j", "a" >>
    [] w = "Vanija" -> << "V", "a", "n", "i", "j", "a" >>
    [] w = "Vishti" -> << "V", "i", "s", "h", "t", "i" >>
    [] w = "Shakuni" -> << "S", "h", "a", "k", "u", "n", "i" >>
    [] w = "Chatushpada" -> << "C", "h", "a", "t", "u", "s", "h", "p", "a", "d", "a" >>
    [] w = "Naga" -> << "N", "a", "g", "a" >>
    [] w = "Kimstughna" -> << "K", "i", "m", "s", "t", "u", "g", "h", "n", "a" >>
    [] w = "paksha" -> << "p", "a", "k", "s", "h", "a" >>
    [] w = "purnimaa" -> << "p", "u", "r", "n", "i", "m", "a", "a" >>
    [] w = "diwali" -> << "d", "i", "w", "a", "l", "i" >>
    [] w = "abc" -> << "a", "b", "c" >>
    [] w = "funday" -> << "f", "u", "n", "d", "a", "y" >>

\* str.lower() on one character
Upper == << "A", "B", "C", "D", "E", "F", "G", "H", "I", "J", "K", "L", "M",
           "N", "O", "P", "Q", "R", "S", "T", "U", "V", "W", "X", "Y", "Z" >>
Lowered == << "a", "b", "c", "d", "e", "f", "g", "h", "i", "j", "k", "l", "m",
             "n", "o", "p", "q", "r", "s", "t", "u", "v", "w", "x", "y", "z" >>

LowerChar(c) ==
  IF \E i \in 1..Len(Upper) : Upper[i] = c
  THEN Lowered[CHOOSE i \in 1..Len(Upper) : Upper[i] = c]
  ELSE c

\* s.lower()
lower(s) == [i \in 1..Len(s) |-> LowerChar(s[i])]

\* s.upper(), for writing a condition in capitals
UpperChar(c) ==
  IF \E i \in 1..Len(Lowered) : Lowered[i] = c
  THEN Upper[CHOOSE i \in 1..Len(Lowered) : Lowered[i] = c]
  ELSE c
upper(s) == [i \in 1..Len(s) |-> UpperChar(s[i])]

\* the characters str.strip() and str.split() treat as whitespace
Whitespace == {" ", "\t", "\n"}

\* s.strip()
RECURSIVE strip(_)
strip(s) ==
  IF s = << >> THEN s
  ELSE IF s[1] \in Whitespace THEN strip(Tail(s))
  ELSE IF s[Len(s)] \in Whitespace THEN strip(SubSeq(s, 1, Len(s) - 1))
  ELSE s

\* s.startswith(p), s.endswith(p)
startswith(s, p) == Len(s) >= Len(p) /\ SubSeq(s, 1, Len(p)) = p
endswith(s, p) == Len(s) >= Len(p) /\ SubSeq(s, Len(s) - Len(p) + 1, Len(s)) = p

\* s.find(sub) + 1: the first position where sub occurs in s, 0 if none
find(s, sub) ==
  LET hits == {i \in 1..(Len(s) - Len(sub) + 1) : SubSeq(s, i, i + Len(sub) - 1) = sub}
  IN IF hits = {} THEN 0 ELSE CHOOSE i \in hits : \A j \in hits : i <= j

\* sub in s
contains(s, sub) == find(s, sub) # 0

\* s.split(sep): the pieces between the occurrences of sep, left to right
RECURSIVE split(_, _)
split(s, sep) ==
  LET i == find(s, sep)
  IN IF i = 0 THEN << s >>
     ELSE << SubSeq(s, 1, i - 1) >> \o split(SubSeq(s, i + Len(sep), Len(s)), sep)

\* s.split(sep, 1) of an s that contains sep
split_once(s, sep) ==
  LET i == find(s, sep)
  IN << SubSeq(s, 1, i - 1), SubSeq(s, i + Len(sep), Len(s)) >>

\* s.split(): the maximal runs of non-whitespace characters
RECURSIVE split_whitespace(_, _)
split_whitespace(s, word) ==
  IF s = << >> THEN (IF word = << >> THEN << >> ELSE << word >>)
  ELSE IF s[1] \in Whitespace
       THEN (IF word = << >> THEN << >> ELSE << word >>) \o split_whitespace(Tail(s), << >>)
       ELSE split_whitespace(Tail(s), Append(word, s[1]))

Digits == << "0", "1", "2", "3", "4", "5", "6", "7", "8", "9" >>
IsDigit(c) == \E d \in 1..Len(Digits) : Digits[d] = c
DigitValue(c) == (CHOOSE d \in 1..Len(Digits) : Digits[d] = c) - 1

RECURSIVE DigitsValue(_, _)
DigitsValue(s, acc) ==
  IF s = << >> THEN acc ELSE DigitsValue(Tail(s), 10 * acc + DigitValue(s[1]))

\* int(s): surrounding whitespace is dropped, one sign is allowed, the rest
\* must be decimal digits; anything else is a ValueError (ok = FALSE)
int(s) ==
  LET body == strip(s)
      signed == body # << >> /\ body[1] \in {"+", "-"}
      digits == IF signed THEN Tail(body) ELSE body
  IN IF digits # << >> /\ \A i \in 1..Len(digits) : IsDigit(digits[i])
     THEN [ok |-> TRUE,
           value |-> IF signed /\ body[1] = "-" THEN 0 - DigitsValue(digits, 0)
                     ELSE DigitsValue(digits, 0)]
     ELSE [ok |-> FALSE, value |-> 0]

\* str(n) of an integer
RECURSIVE str(_)
str(n) ==
  IF n < 0 THEN << "-" >> \o str(0 - n)
  ELSE IF n < 10 THEN << Digits[n + 1] >>
  ELSE str(n \div 10) \o << Digits[(n % 10) + 1] >>

\* ---------------------------------------------------------------------
\* assemble_panchangam: the whole record of one date
\* ---------------------------------------------------------------------

\* f"Shukla {n}" / f"Krishna {n - 15}"
tithi_name(tithi_num) ==
  IF tithi_num <= 15 THEN Chars("Shukla") \o << " " >> \o str(tithi_num)
  ELSE Chars("Krishna") \o << " " >> \o str(tithi_num - 15)

\* a name lookup past the end of NAKSHATRAS or YOGAS
IndexError == << >>

\* the record assemble_panchangam returns for the noon longitudes, weekday
\* and provider events of the date (date, location, settings and the rounded
\* percentages are left out), or the exception it raises
assemble_panchangam(sun, moon, wd, sunrise_iso, sunset_iso) ==
  LET t == compute_tithi(sun, moon)
      n == compute_nakshatra(moon)
      y == compute_yoga(sun, moon)
      k == compute_karana(t.number, t.progress)
      ryg == compute_rahu_yama_gulikai(wd, sunrise_iso, sunset_iso)
      hs == compute_hora(sunrise_iso, sunset_iso)
      g == compute_gowri_nalla(sunrise_iso, sunset_iso)
  IN IF n.number \notin DOMAIN NAKSHATRAS \/ y.number \notin DOMAIN YOGAS
     THEN IndexError
     ELSE
  [sunrise |-> sunrise_iso,
   sunset |-> sunset_iso,
   tithi |-> [number |-> t.number, name |-> tithi_name(t.number),
              progress |-> t.progress],
   nakshatra |-> [number |-> n.number, name |-> NAKSHATRAS[n.number],
                  progress |-> n.progress],
   yoga |-> [number |-> y.number, name |-> YOGAS[y.number],
             progress |-> y.progress],
   karana |-> k,
   rahu_kalam |-> ryg.rahu_kalam,
   yama_gandam |-> ryg.yama_gandam,
   gulikai_kalam |-> ryg.gulikai_kalam,
   horas |-> [i \in DOMAIN hs |->
                [hora_number |-> hs[i].hora_number, planet |-> hs[i].planet,
                 start |-> hs[i].start, end |-> hs[i].end]],
   gowri_panchangam |-> g]

\* noon longitudes of the requested dates: inside [0, 360), one of them in
\* the last sliver of the circle
AssembleSun == {Flt(0, 0), Flt(FULL_CIRCLE \div 4, 0)}
AssembleMoon == {Flt(0, 0), Flt(186000000, 0), Flt(FULL_CIRCLE - 5, 0)}

InitAssemble ==
  /\ sun_long \in AssembleSun
  /\ moon_long \in AssembleMoon
  /\ weekday \in 0..6
  /\ eph_sunrise \in SunriseEvents
  /\ eph_sunset \in SunsetEvents
  /\ tithi = Unset /\ nakshatra = Unset /\ yoga = Unset /\ karana = UnsetKarana
  /\ rahu_yama_gulikai = << >> /\ horas = << >> /\ gowri = << >>
  /\ pc = "request"
  /\ NoSegments /\ NoRecord /\ NoScan /\ NoQueries /\ NoRule

\* the provider queries of one call, in the order they are made:
\* get_sunrise_sunset asks sunrise_sunset_local once, and each of the three
\* partitioner functions calls get_sunrise_sunset once
get_sunrise_sunset_queries == << "sunrise_sunset_local" >>
compute_rahu_yama_gulikai_queries == get_sunrise_sunset_queries
compute_hora_queries == get_sunrise_sunset_queries
compute_gowri_nalla_queries == get_sunrise_sunset_queries

\* assemble_panchangam asks for the sun events and the noon longitudes
\* itself, then calls the three partitioner functions
assemble_panchangam_queries ==
  << "sunrise_sunset_local", "sun_moon_ecliptic_longitudes" >>
    \o compute_rahu_yama_gulikai_queries
    \o compute_hora_queries
    \o compute_gowri_nalla_queries

\* one call of assemble_panchangam
AssemblePanchangam ==
  /\ pc = "request"
  /\ LET p == assemble_panchangam(sun_long, moon_long, weekday, eph_sunrise, eph_sunset)
     IN /\ panchangam' = p
        /\ pc' = IF p = IndexError THEN "raised" ELSE "returned"
  /\ queries' = assemble_panchangam_queries
  /\ UNCHANGED << sun_long, moon_long, tithi, nakshatra, yoga, karana, daylight,
                  segment_vars, rule_vars, scan_vars >>

NextAssemble == AssemblePanchangam
SpecAssemble == InitAssemble /\ [][NextAssemble]_vars

Returned == pc = "returned"

\* C16: when the provider yields no sunrise or no sunset, nothing is
\* returned; a returned record reports both events, and its horas and
\* inauspicious intervals are laid out from the sunrise it reports.
C16_NoSubstituteSunTimes ==
  Returned =>
    /\ panchangam.sunrise # << >>
    /\ panchangam.sunset # << >>
    /\ panchangam.horas[1].start = panchangam.sunrise[1]
    /\ panchangam.rahu_kalam.start =
         panchangam.sunrise[1] + Hours(rahu_periods[weekday + 1][1])


\* ---------------------------------------------------------------------
\* FestivalRuleEvaluator (festivals/rules.py)
\* ---------------------------------------------------------------------

_is_pradosha_kala(p) == p.tithi.number = 13
_is_brahma_muhurta(p) == TRUE
_is_amavasya(p) == p.tithi.number = 30
_is_purnima(p) == p.tithi.number = 15

\* an ekadashi test that knows the bright fortnight only
_is_ekadashi_shukla(p) == p.tithi.number = 11

_is_ekadashi(p) == p.tithi.number = 11 \/ p.tithi.number = 26

\* the keys of special_periods
special_periods ==
  {Chars("pradosha_kala"), Chars("brahma_muhurta"), Chars("amavasya"),
   Chars("purnima"), Chars("ekadashi")}

\* special_periods[condition](panchangam, date_obj)
special_period(condition, p) ==
  IF condition = Chars("pradosha_kala") THEN _is_pradosha_kala(p)
  ELSE IF condition = Chars("brahma_muhurta") THEN _is_brahma_muhurta(p)
  ELSE IF condition = Chars("amavasya") THEN _is_amavasya(p)
  ELSE IF condition = Chars("purnima") THEN _is_purnima(p)
  ELSE _is_ekadashi(p)

\* a tithi check that counts the dark fortnight from 1 as well
_check_tithi_condition_uncounted(condition, p) ==
  LET parts == split_whitespace(condition, << >>)
      target == IF Len(parts) = 2 THEN int(parts[1]) ELSE int(condition)
  IN /\ target.ok
     /\ p.tithi.number = target.value
     /\ Len(parts) = 2 /\ lower(parts[2]) = Chars("shukla")
          => contains(lower(p.tithi.name), Chars("shukla"))
     /\ Len(parts) = 2 /\ lower(parts[2]) = Chars("krishna")
          => contains(lower(p.tithi.name), Chars("krishna"))

_check_tithi_condition(condition, p) ==
  LET tithi_number == p.tithi.number
      name == p.tithi.name
      parts == split_whitespace(condition, << >>)
  IN IF Len(parts) = 2
     THEN LET target == int(parts[1])
              target_paksha == lower(parts[2])
          IN IF ~target.ok THEN FALSE
             ELSE IF target_paksha = Chars("shukla")
             THEN tithi_number = target.value
                    /\ contains(lower(name), Chars("shukla"))
             ELSE IF target_paksha = Chars("krishna")
             THEN tithi_number = target.value + 15
                    /\ contains(lower(name), Chars("krishna"))
             ELSE tithi_number = target.value
     ELSE LET target == int(condition)
          IN target.ok /\ tithi_number = target.value

_check_nakshatra_condition(condition, p) ==
  LET target == int(condition)
  IN target.ok /\ p.nakshatra.number = target.value

_check_yoga_condition(condition, p) ==
  LET target == int(condition)
  IN target.ok /\ p.yoga.number = target.value

_check_karana_condition(condition, p) ==
  lower(Chars(p.karana.name)) = lower(condition)

\* the weekdays dictionary, Monday = 0; a day name it lacks gives -1
weekdays ==
  << Chars("monday"), Chars("tuesday"), Chars("wednesday"), Chars("thursday"),
     Chars("friday"), Chars("saturday"), Chars("sunday") >>

\* a weekday check whose dictionary lookup falls back to 0
_check_weekday_condition_default(condition, date_weekday) ==
  LET known == {i \in 1..Len(weekdays) : weekdays[i] = lower(condition)}
      target_weekday == IF known = {} THEN 0 ELSE (CHOOSE i \in known : TRUE) - 1
  IN date_weekday = target_weekday

_check_weekday_condition(condition, date_weekday) ==
  LET known == {i \in 1..Len(weekdays) : weekdays[i] = lower(condition)}
      target_weekday == IF known = {} THEN -1 ELSE (CHOOSE i \in known : TRUE) - 1
  IN IF target_weekday = -1 THEN FALSE ELSE date_weekday = target_weekday

\* an evaluator that lets a condition it does not know pass
_evaluate_atomic_condition_accepting(cond, p, date_weekday) ==
  LET condition == strip(cond)
  IN IF condition \in special_periods THEN special_period(condition, p)
     ELSE IF contains(condition, << "=" >>)
     THEN LET sides == split_once(condition, << "=" >>)
              left == strip(sides[1])
              right == strip(sides[2])
          IN IF left = Chars("tithi") THEN _check_tithi_condition(right, p)
             ELSE IF left = Chars("nakshatra") THEN _check_nakshatra_condition(right, p)
             ELSE IF left = Chars("yoga") THEN _check_yoga_condition(right, p)
             ELSE IF left = Chars("karana") THEN _check_karana_condition(right, p)
             ELSE IF left = Chars("weekday") THEN _check_weekday_condition(right, date_weekday)
             ELSE TRUE
     ELSE TRUE

_evaluate_atomic_condition(cond, p, date_weekday) ==
  LET condition == strip(cond)
  IN IF condition \in special_periods THEN special_period(condition, p)
     ELSE IF contains(condition, << "=" >>)
     THEN LET sides == split_once(condition, << "=" >>)
              left == strip(sides[1])
              right == strip(sides[2])
          IN IF left = Chars("tithi") THEN _check_tithi_condition(right, p)
             ELSE IF left = Chars("nakshatra") THEN _check_nakshatra_condition(right, p)
             ELSE IF left = Chars("yoga") THEN _check_yoga_condition(right, p)
             ELSE IF left = Chars("karana") THEN _check_karana_condition(right, p)
             ELSE IF left = Chars("weekday") THEN _check_weekday_condition(right, date_weekday)
             ELSE FALSE
     ELSE FALSE

\* the separators of the two binary operators
AND == << " ", "&", " " >>
OR == << " ", "|", " " >>

\* a parser that looks for ' | ' before ' & '
RECURSIVE _parse_logical_expression_or_first(_, _, _)
_parse_logical_expression_or_first(e, p, date_weekday) ==
  LET expr == strip(e)
  IN IF startswith(expr, << "!" >>)
     THEN ~_parse_logical_expression_or_first(strip(Tail(expr)), p, date_weekday)
     ELSE IF startswith(expr, << "(" >>) /\ endswith(expr, << ")" >>)
     THEN _parse_logical_expression_or_first(strip(SubSeq(expr, 2, Len(expr) - 1)), p, date_weekday)
     ELSE IF contains(expr, OR)
     THEN LET parts == split(expr, OR)
          IN \E i \in 1..Len(parts) :
               _parse_logical_expression_or_first(strip(parts[i]), p, date_weekday)
     ELSE IF contains(expr, AND)
     THEN LET parts == split(expr, AND)
          IN \A i \in 1..Len(parts) :
               _parse_logical_expression_or_first(strip(parts[i]), p, date_weekday)
     ELSE _evaluate_atomic_condition(expr, p, date_weekday)

RECURSIVE _parse_logical_expression(_, _, _)
_parse_logical_expression(e, p, date_weekday) ==
  LET expr == strip(e)
  IN IF startswith(expr, << "!" >>)
     THEN ~_parse_logical_expression(strip(Tail(expr)), p, date_weekday)
     ELSE IF startswith(expr, << "(" >>) /\ endswith(expr, << ")" >>)
     THEN _parse_logical_expression(strip(SubSeq(expr, 2, Len(expr) - 1)), p, date_weekday)
     ELSE IF contains(expr, AND)
     THEN LET parts == split(expr, AND)
          IN \A i \in 1..Len(parts) :
               _parse_logical_expression(strip(parts[i]), p, date_weekday)
     ELSE IF contains(expr, OR)
     THEN LET parts == split(expr, OR)
          IN \E i \in 1..Len(parts) :
               _parse_logical_expression(strip(parts[i]), p, date_weekday)
     ELSE _evaluate_atomic_condition(expr, p, date_weekday)

_evaluate_condition(condition, p, date_weekday) ==
  _parse_logical_expression(lower(strip(condition)), p, date_weekday)

\* evaluate_rule: any exception of assemble_panchangam makes the rule not match
evaluate_rule(when, p, date_weekday) ==
  IF p = IndexError THEN FALSE ELSE _evaluate_condition(when, p, date_weekday)


\* ---------------------------------------------------------------------
\* One call of evaluate_rule: a rule, a date, the answer
\* ---------------------------------------------------------------------

\* the largest N written in a 'tithi=N paksha' atom
MaxTarget == 32

\* noon longitudes, sun first: the middle of each of the thirty tithis, the
\* separation that comes out as tithi 31, and a moon in the last sliver of
\* the circle, for which assemble_panchangam raises
RuleDays ==
  {<< Flt(0, 0), Flt((k - 1) * TITHI_DURATION + TITHI_DURATION \div 2, 0) >> : k \in 1..30}
    \cup {<< Flt(0, 1), Flt(0, 0) >>, << Flt(0, 0), Flt(FULL_CIRCLE - 5, 0) >>}

\* a rule's when string, with the way it was put together: its shape, the
\* atoms in it from left to right (for a rewritten condition, the condition
\* it was rewritten from), and the N of a tithi atom
Rule(when, shape, atoms, number) ==
  [when |-> when, shape |-> shape, atoms |-> atoms, number |-> number]

TithiAtom(n, paksha) ==
  Chars("tithi") \o << "=" >> \o str(n) \o << " " >> \o Chars(paksha)

TithiRules ==
  {Rule(TithiAtom(n, paksha), paksha, << TithiAtom(n, paksha) >>, n) :
     n \in (0 - 2)..MaxTarget, paksha \in {"shukla", "krishna"}}

NamedRules == {Rule(a, "named", << a >>, 0) : a \in special_periods}

\* the atoms of the compound rules
Atoms ==
  {Chars("purnima"), Chars("ekadashi"), Chars("brahma_muhurta"),
   Chars("weekday") \o << "=" >> \o Chars("monday")}

NotRules ==
  {Rule(<< "!" >> \o a \o AND \o b, "!A & B", << a, b >>, 0) : a \in Atoms, b \in Atoms}
    \cup {Rule(<< "!" >> \o a \o OR \o b, "!A | B", << a, b >>, 0) : a \in Atoms, b \in Atoms}

GroupRules ==
  {Rule(<< "(" >> \o a \o AND \o b \o << ")" >> \o OR \o c,
        "(A & B) | C", << a, b, c >>, 0) : a \in Atoms, b \in Atoms, c \in Atoms}
    \cup {Rule(a \o AND \o << "(" >> \o b \o OR \o c \o << ")" >>,
               "A & (B | C)", << a, b, c >>, 0) : a \in Atoms, b \in Atoms, c \in Atoms}
    \cup {Rule(<< "(" >> \o a \o OR \o b \o << ")" >> \o AND \o << "(" >> \o c \o OR \o d \o << ")" >>,
               "(A | B) & (C | D)", << a, b, c, d >>, 0) :
            a \in Atoms, b \in Atoms, c \in Atoms, d \in Atoms}

\* conditions written in capitals, each with the condition it spells
RecasedRules ==
  {Rule(upper(c), "recased", << c >>, 0) :
     c \in special_periods
             \cup {TithiAtom(n, paksha) : n \in 14..15, paksha \in {"shukla", "krishna"}}
             \cup {a \o AND \o b : a \in Atoms, b \in Atoms}}

\* conditions with whitespace added or removed around '&', '|', '!', '='
\* and parentheses, each with the condition it respaces
RespacedRules ==
  {Rule(a \o << "&" >> \o b, "respaced", << a \o AND \o b >>, 0) : a \in Atoms, b \in Atoms}
    \cup {Rule(a \o << "|" >> \o b, "respaced", << a \o OR \o b >>, 0) : a \in Atoms, b \in Atoms}
    \cup {Rule(a \o << " ", " ", "&", " ", " " >> \o b, "respaced", << a \o AND \o b >>, 0) :
            a \in Atoms, b \in Atoms}
    \cup {Rule(<< "!", " " >> \o a, "respaced", << << "!" >> \o a >>, 0) : a \in Atoms}
    \cup {Rule(<< "(", " " >> \o a \o << " ", ")" >>, "respaced",
               << << "(" >> \o a \o << ")" >> >>, 0) : a \in Atoms}
    \cup {Rule(<< " " >> \o a \o << " " >>, "respaced", << a >>, 0) : a \in Atoms}
    \cup {Rule(Chars("tithi") \o << " ", "=", " " >> \o str(n) \o << " ", " " >> \o Chars(paksha),
               "respaced", << TithiAtom(n, paksha) >>, 0) :
            n \in 14..15, paksha \in {"shukla", "krishna"}}

\* atoms the evaluator has no meaning for: an unknown field, unknown bare
\* names, values that are not integers, an unknown day name
Field(name, value) == Chars(name) \o << "=" >> \o value

MalformedAtoms ==
  {Field("paksha", << "1" >>), Chars("purnimaa"), Chars("diwali"),
   Field("tithi", Chars("abc")),
   Field("tithi", Chars("abc") \o << " " >> \o Chars("shukla")),
   Field("tithi", << "1", ".", "5", " " >> \o Chars("krishna")),
   Field("nakshatra", Chars("abc")), Field("yoga", << "1", ".", "5" >>),
   Field("weekday", Chars("funday"))}

MalformedRules == {Rule(a, "malformed", << a >>, 0) : a \in MalformedAtoms}

\* unparenthesised conditions with both operators
MixedRules ==
  {Rule(a \o OR \o b \o AND \o c, "A | B & C", << a, b, c >>, 0) :
     a \in Atoms, b \in Atoms, c \in Atoms}
    \cup {Rule(a \o AND \o b \o OR \o c, "A & B | C", << a, b, c >>, 0) :
            a \in Atoms, b \in Atoms, c \in Atoms}

\* a misspelt predicate and an unknown field
UnrecognisedAtoms == {Chars("purnimaa"), Field("paksha", << "1" >>)}

\* conditions with an unrecognised atom alone, in parentheses or as one
\* conjunct of atoms
UnrecognisedConjunctRules ==
  {Rule(u, "unrecognised conjunct", << u >>, 0) : u \in UnrecognisedAtoms}
    \cup {Rule(<< "(" >> \o u \o << ")" >>, "unrecognised conjunct", << u >>, 0) :
            u \in UnrecognisedAtoms}
    \cup {Rule(u \o AND \o a, "unrecognised conjunct", << u, a >>, 0) :
            u \in UnrecognisedAtoms, a \in Atoms}
    \cup {Rule(a \o AND \o u, "unrecognised conjunct", << a, u >>, 0) :
            u \in UnrecognisedAtoms, a \in Atoms}

\* conditions with an unrecognised atom under '!' or next to '|'
UnrecognisedOperandRules ==
  {Rule(<< "!" >> \o u, "unrecognised operand", << u >>, 0) : u \in UnrecognisedAtoms}
    \cup {Rule(u \o OR \o a, "unrecognised operand", << u, a >>, 0) :
            u \in UnrecognisedAtoms, a \in Atoms}
    \cup {Rule(a \o OR \o u, "unrecognised operand", << a, u >>, 0) :
            u \in UnrecognisedAtoms, a \in Atoms}
    \cup {Rule(<< "!" >> \o a \o AND \o u, "unrecognised operand", << a, u >>, 0) :
            u \in UnrecognisedAtoms, a \in Atoms}

Rules ==
  TithiRules \cup NamedRules \cup NotRules \cup GroupRules
    \cup RecasedRules \cup RespacedRules \cup MalformedRules
    \cup MixedRules \cup UnrecognisedConjunctRules \cup UnrecognisedOperandRules

InitRules ==
  /\ \E day \in RuleDays : sun_long = day[1] /\ moon_long = day[2]
  /\ weekday \in 0..1
  /\ eph_sunrise = << Hours(60) >>
  /\ eph_sunset = << Hours(180) >>
  /\ tithi = Unset /\ nakshatra = Unset /\ yoga = Unset /\ karana = UnsetKarana
  /\ rahu_yama_gulikai = << >> /\ horas = << >> /\ gowri = << >>
  /\ pc = "rule"
  /\ NoSegments /\ NoRecord /\ NoScan /\ NoQueries
  /\ rule \in Rules
  /\ matched = FALSE

EvaluateRule ==
  /\ pc = "rule"
  /\ LET p == assemble_panchangam(sun_long, moon_long, weekday, eph_sunrise, eph_sunset)
     IN /\ panchangam' = p
        /\ matched' = evaluate_rule(rule.when, p, weekday)
  /\ pc' = "evaluated"
  /\ queries' = assemble_panchangam_queries
  /\ UNCHANGED << sun_long, moon_long, tithi, nakshatra, yoga, karana, daylight,
                  segment_vars, rule, scan_vars >>

NextRules == EvaluateRule
SpecRules == InitRules /\ [][NextRules]_vars

\* the rule was evaluated on a date whose record could be assembled
Evaluated == pc = "evaluated" /\ panchangam # << >>


\* the day's tithi number, and whether its tithi name has the word in it
DayTithi == panchangam.tithi.number
NameHas(word) == contains(lower(panchangam.tithi.name), Chars(word))

\* C17: 'tithi=N shukla' is true on a day iff the day's tithi number is N and
\* its tithi name contains 'shukla'; 'tithi=N krishna' is true iff the tithi
\* number is N + 15 and the name contains 'krishna'. So 'tithi=15 shukla' is
\* true on tithi 15 and false on tithi 16.
C17_TithiPakshaAtom ==
  /\ (Evaluated /\ rule.shape = "shukla") =>
       (matched <=> (DayTithi = rule.number /\ NameHas("shukla")))
  /\ (Evaluated /\ rule.shape = "krishna") =>
       (matched <=> (DayTithi = rule.number + 15 /\ NameHas("krishna")))
  /\ (Evaluated /\ rule.when = TithiAtom(15, "shukla")) =>
       /\ DayTithi = 15 => matched
       /\ DayTithi = 16 => ~matched

C17_Witness ==
  /\ Evaluated
  /\ rule.when = TithiAtom(14, "krishna")
  /\ DayTithi = 29
  /\ panchangam.tithi.name = Chars("Krishna") \o << " ", "1", "4" >>
  /\ matched

\* C18: for every tithi number in 1..30, amavasya is true iff the tithi is
\* 30, purnima iff 15, ekadashi iff 11 or 26, pradosha_kala iff 13, and
\* brahma_muhurta is true on every day.
C18_NamedPredicates ==
  (Evaluated /\ rule.shape = "named" /\ DayTithi \in 1..30) =>
    /\ rule.when = Chars("amavasya") => (matched <=> DayTithi = 30)
    /\ rule.when = Chars("purnima") => (matched <=> DayTithi = 15)
    /\ rule.when = Chars("ekadashi") => (matched <=> DayTithi \in {11, 26})
    /\ rule.when = Chars("pradosha_kala") => (matched <=> DayTithi = 13)
    /\ rule.when = Chars("brahma_muhurta") => matched

C18_Witness ==
  /\ Evaluated
  /\ rule.when = Chars("ekadashi")
  /\ DayTithi = 26
  /\ matched

\* the truth of the i-th atom of the rule on the day
Holds(i) == _evaluate_atomic_condition(rule.atoms[i], panchangam, weekday)

\* C19: NOT binds tighter than AND and OR: '!A & B' is true iff (not A) and
\* B, and '!A | B' is true iff (not A) or B.
C19_NotBindsTighter ==
  /\ (Evaluated /\ rule.shape = "!A & B") => (matched <=> (~Holds(1) /\ Holds(2)))
  /\ (Evaluated /\ rule.shape = "!A | B") => (matched <=> (~Holds(1) \/ Holds(2)))

\* C20: parentheses override the grouping wherever they appear:
\* '(A & B) | C' is true iff (A and B) or C, 'A & (B | C)' iff A and (B or C),
\* '(A | B) & (C | D)' iff (A or B) and (C or D).
C20_ParenthesesOverride ==
  /\ (Evaluated /\ rule.shape = "(A & B) | C") =>
       (matched <=> ((Holds(1) /\ Holds(2)) \/ Holds(3)))
  /\ (Evaluated /\ rule.shape = "A & (B | C)") =>
       (matched <=> (Holds(1) /\ (Holds(2) \/ Holds(3))))
  /\ (Evaluated /\ rule.shape = "(A | B) & (C | D)") =>
       (matched <=> ((Holds(1) \/ Holds(2)) /\ (Holds(3) \/ Holds(4))))


\* the answer on the same day for the condition the rule was rewritten from
Original == _evaluate_condition(rule.atoms[1], panchangam, weekday)

\* C21: evaluation is case-insensitive and whitespace-tolerant: writing a
\* condition in another letter case, or with whitespace added or removed
\* around '&', '|', '!', '=' and parentheses, does not change the answer on
\* the same day.
C21_CaseAndWhitespace ==
  (Evaluated /\ rule.shape \in {"recased", "respaced"}) => (matched <=> Original)


\* C22: an atom with an unknown field name, an unknown bare predicate name,
\* a non-integer tithi, nakshatra or yoga value or an unknown weekday name
\* is false on every day, and evaluating it ends with an answer.
C22_MalformedAtomIsFalse ==
  (pc = "evaluated" /\ rule.shape = "malformed") => ~matched

C22_Witness ==
  /\ Evaluated
  /\ rule.when = Field("weekday", Chars("funday"))
  /\ weekday = 0
  /\ DayTithi = 15
  /\ ~matched


\* ---------------------------------------------------------------------
\* FestivalService.build_month (festivals/service.py)
\* ---------------------------------------------------------------------

Festival(name, when, region) == [name |-> name, when |-> when, region |-> region]

\* the catalogue, in its order
FESTIVAL_RULES ==
  << Festival("Maha Shivaratri", TithiAtom(14, "krishna"), "ALL"),
     Festival("Holi", TithiAtom(15, "krishna") \o AND \o Field("nakshatra", << "1" >>), "ALL"),
     Festival("Diwali", TithiAtom(15, "krishna") \o AND \o Field("nakshatra", << "1" >>), "ALL"),
     Festival("Dussehra", TithiAtom(10, "shukla"), "ALL"),
     Festival("Ganesh Chaturthi", TithiAtom(4, "shukla"), "ALL"),
     Festival("Krishna Janmashtami", TithiAtom(8, "krishna"), "ALL"),
     Festival("Rama Navami", TithiAtom(9, "shukla"), "ALL"),
     Festival("Hanuman Jayanti", TithiAtom(15, "shukla"), "ALL"),
     Festival("Pongal", TithiAtom(1, "shukla") \o AND \o Field("nakshatra", << "1" >>), "TN"),
     Festival("Onam", TithiAtom(10, "shukla") \o AND \o Field("nakshatra", << "1" >>), "KL"),
     Festival("Karva Chauth", TithiAtom(4, "krishna"), "ALL"),
     Festival("Navratri", TithiAtom(1, "shukla"), "ALL"),
     Festival("Ekadashi", Chars("ekadashi"), "ALL"),
     Festival("Amavasya", Chars("amavasya"), "ALL"),
     Festival("Purnima", Chars("purnima"), "ALL") >>

get_festivals_for_region(region) ==
  LET Wanted(r) == r.region = "ALL" \/ r.region = region
  IN SelectSeq(FESTIVAL_RULES, Wanted)

\* what the provider has for one date: its noon longitudes and sun events,
\* or no answer at all (available = FALSE: every query raises)
ProviderDay(sun, moon, available) ==
  [sun |-> sun, moon |-> moon, sunrise |-> << Hours(60) >>, sunset |-> << Hours(180) >>,
   available |-> available]

\* assemble_panchangam for the date, or the exception it ends with
day_panchangam(day, date_weekday) ==
  IF ~day.available THEN IndexError
  ELSE assemble_panchangam(day.sun, day.moon, date_weekday, day.sunrise, day.sunset)

\* _create_festival_data: the occurrence, or << >> for None
_create_festival_data(r, date, day, date_weekday) ==
  LET p == day_panchangam(day, date_weekday)
  IN IF p = IndexError THEN << >>
     ELSE << [date |-> date, name |-> r.name, tithi |-> p.tithi.number] >>

\* _check_festivals_for_date, from the k-th rule on
RECURSIVE _check_festivals_for_date(_, _, _, _, _)
_check_festivals_for_date(date, day, date_weekday, festival_rules, k) ==
  IF k > Len(festival_rules) THEN << >>
  ELSE LET r == festival_rules[k]
           found == IF evaluate_rule(r.when, day_panchangam(day, date_weekday), date_weekday)
                    THEN _create_festival_data(r, date, day, date_weekday)
                    ELSE << >>
       IN found \o _check_festivals_for_date(date, day, date_weekday, festival_rules, k + 1)

\* the loop of build_month, from day date on; the first day of the month
\* falls on first_weekday
RECURSIVE scan_days(_, _, _, _)
scan_days(days, first_weekday, festival_rules, date) ==
  IF date > Len(days) THEN << >>
  ELSE _check_festivals_for_date(date, days[date], (first_weekday + date - 1) % 7,
                                 festival_rules, 1)
         \o scan_days(days, first_weekday, festival_rules, date + 1)

\* a scan that lets the exception of a day reach build_month's own handler,
\* which returns the empty list
build_month_aborting(days, first_weekday, region) ==
  IF \E date \in 1..Len(days) :
       day_panchangam(days[date], (first_weekday + date - 1) % 7) = IndexError
  THEN << >>
  ELSE scan_days(days, first_weekday, get_festivals_for_region(region), 1)

build_month(days, first_weekday, region) ==
  scan_days(days, first_weekday, get_festivals_for_region(region), 1)

\* the number of days of the scanned month
MonthLen == 3

\* dates of tithi 2, 15, 26 and 29, a date of tithi 30 with the moon in the
\* first nakshatra, a date for which assemble_panchangam raises IndexError,
\* and a date the provider fails on
ScanDays ==
  {ProviderDay(Flt(0, 0), Flt((k - 1) * TITHI_DURATION + TITHI_DURATION \div 2, 0), TRUE) :
     k \in {2, 15, 26, 29}}
    \cup {ProviderDay(Flt(TITHI_DURATION, 0), Flt(TITHI_DURATION \div 2, 0), TRUE),
          ProviderDay(Flt(0, 0), Flt(FULL_CIRCLE - 5, 0), TRUE),
          ProviderDay(Flt(0, 0), Flt(0, 0), FALSE)}

InitMonth ==
  /\ month \in [1..MonthLen -> ScanDays]
  /\ festival_days = << >>
  /\ weekday = 0
  /\ sun_long = Unset /\ moon_long = Unset
  /\ eph_sunrise = << >> /\ eph_sunset = << >>
  /\ tithi = Unset /\ nakshatra = Unset /\ yoga = Unset /\ karana = UnsetKarana
  /\ rahu_yama_gulikai = << >> /\ horas = << >> /\ gowri = << >>
  /\ pc = "month"
  /\ NoSegments /\ NoRecord /\ NoRule /\ NoQueries

BuildMonth ==
  /\ pc = "month"
  /\ festival_days' = build_month(month, weekday, "ALL")
  /\ pc' = "scanned"
  /\ UNCHANGED << sun_long, moon_long, tithi, nakshatra, yoga, karana, daylight,
                  segment_vars, assembled, rule_vars, month, queries >>

NextMonth == BuildMonth
SpecMonth == InitMonth /\ [][NextMonth]_vars

\* the rule matches on the date, whose panchangam can be computed
MatchesOn(r, date) ==
  LET wd == (weekday + date - 1) % 7
      p == day_panchangam(month[date], wd)
  IN p # IndexError /\ _evaluate_condition(r.when, p, wd)

Failed(date) == day_panchangam(month[date], (weekday + date - 1) % 7) = IndexError

\* C23: a day whose panchangam computation fails does not abort the scan:
\* build_month returns, and its result has the occurrence of every rule on
\* every other day of the month on which that rule matches.
C23_ScanSurvivesBadDay ==
  (pc = "scanned") =>
    \A date \in 1..Len(month) :
      \A k \in 1..Len(get_festivals_for_region("ALL")) :
        LET r == get_festivals_for_region("ALL")[k]
        IN MatchesOn(r, date) =>
             \E j \in 1..Len(festival_days) :
               festival_days[j].date = date /\ festival_days[j].name = r.name

C23_Witness ==
  /\ pc = "scanned"
  /\ ~month[1].available
  /\ Failed(2) /\ month[2].available
  /\ \E j \in 1..Len(festival_days) :
       festival_days[j].date = 3 /\ festival_days[j].name = "Hanuman Jayanti"


\* how many times the call asked the provider this query
Asked(query) == Cardinality({i \in 1..Len(queries) : queries[i] = query})

\* C24: one call of assemble_panchangam asks the provider exactly once for
\* the sun and moon longitudes and exactly once for the sunrise and sunset
\* of the date.
C24_ProviderAskedOnce ==
  (pc \in {"returned", "raised"}) =>
    /\ Asked("sun_moon_ecliptic_longitudes") = 1
    /\ Asked("sunrise_sunset_local") = 1


\* two intervals that share at most an endpoint
Apart(a, b) == a.end <= b.start \/ b.end <= a.start

\* C26: on every weekday the Rahu Kalam, Yama Gandam and Gulikai Kalam
\* intervals of one call of compute_rahu_yama_gulikai are pairwise
\* non-overlapping in time.
C26_InauspiciousApart ==
  (RahuDone /\ PositiveDaylight) =>
    /\ Apart(rahu_yama_gulikai.rahu_kalam, rahu_yama_gulikai.yama_gandam)
    /\ Apart(rahu_yama_gulikai.rahu_kalam, rahu_yama_gulikai.gulikai_kalam)
    /\ Apart(rahu_yama_gulikai.yama_gandam, rahu_yama_gulikai.gulikai_kalam)


\* C27: an unparenthesised condition with both operators is split on ' & '
\* before ' | ': 'A | B & C' is true iff (A or B) and C, and 'A & B | C' is
\* true iff A and (B or C).
C27_AndSplitsFirst ==
  /\ (Evaluated /\ rule.shape = "A | B & C") =>
       (matched <=> ((Holds(1) \/ Holds(2)) /\ Holds(3)))
  /\ (Evaluated /\ rule.shape = "A & B | C") =>
       (matched <=> (Holds(1) /\ (Holds(2) \/ Holds(3))))

C27_Witness ==
  /\ Evaluated
  /\ rule.when = Chars("brahma_muhurta") \o OR \o Chars("purnima") \o AND \o Chars("ekadashi")
  /\ DayTithi = 1
  /\ Holds(1) /\ ~Holds(3)
  /\ ~matched

\* C28 as claimed: a rule whose condition contains an unrecognised atom
\* never matches any day, also when the atom is under '!' or combined with
\* '&' or '|'.
C28_UnrecognisedNeverMatches ==
  (pc = "evaluated" /\ rule.shape \in {"unrecognised conjunct", "unrecognised operand"})
    => ~matched

\* C28 as amended: a rule whose condition is an unrecognised atom, alone, in
\* parentheses or as one conjunct of a ' & ' of atoms (no '!', no '|'),
\* never matches any day.
C28_UnrecognisedConjunctNeverMatches ==
  (pc = "evaluated" /\ rule.shape = "unrecognised conjunct") => ~matched

C28_Witness ==
  /\ Evaluated
  /\ rule.when = Chars("brahma_muhurta") \o AND \o Chars("purnimaa")
  /\ DayTithi = 15
  /\ ~matched


\* C29: the three weekday tables agree: on every weekday day_segments,
\* compute_windows and window_for with RAHU_FRAC, YAMA_FRAC and GULIKA_FRAC
\* select the same one of the eight daylight segments for Rahu, for Yama and
\* for Gulika.
C29_TablesAgree ==
  (pc = "panchangam_today" /\ R < T) =>
    /\ rahu_map[weekday + 1] = _RAHU_SEG[weekday]
    /\ _RAHU_SEG[weekday] = RAHU_FRAC[weekday][1]
    /\ yama_map[weekday + 1] = _YAMA_SEG[weekday]
    /\ _YAMA_SEG[weekday] = YAMA_FRAC[weekday][1]
    /\ gulika_map[weekday + 1] = _GULI_SEG[weekday]
    /\ _GULI_SEG[weekday] = GULIKA_FRAC[weekday][1]


\* C30: every day on which the catalogue's 'Holi' rule matches is a Purnima
\* day: its tithi number is 15 and the 'purnima' predicate matches on it too.
C30_HoliOnPurnima ==
  (pc = "scanned") =>
    \A j \in 1..Len(festival_days) :
      festival_days[j].name = "Holi" =>
        /\ festival_days[j].tithi = 15
        /\ \E k \in 1..Len(festival_days) :
             /\ festival_days[k].date = festival_days[j].date
             /\ festival_days[k].name = "Purnima"

====
